---- MODULE Spec2Model ----
(***************************************************************************)
(* The script tree of the Prometheus tool (ui/prometheus_widgets.py): the  *)
(* forest of TreeItem objects held by the Tree widget, the handlers that   *)
(* change it, and its JSON configuration codec.                            *)
(*                                                                         *)
(* A TreeItem object is an identifier of Ids; the forest is the record     *)
(*   tree = [top  |-> the top-level items, in order,                       *)
(*           item |-> a function from the identifiers of the objects that  *)
(*                    exist to their data]                                 *)
(* An object that exists but hangs under no top-level item is detached (a  *)
(* taken item, or a clone not added yet); detached objects are dropped at  *)
(* the end of each handler.                                                *)
(***************************************************************************)
EXTENDS Integers, Sequences, FiniteSets, TLC

\* ------------------------------------------------------------------ bounds
\* The handlers that add items are taken only while the tree holds fewer
\* than MaxNodes items (Spec), fewer than MaxConfigNodes (SpecConfig).
MaxNodes == 4
MaxConfigNodes == 3
\* ... fewer than MaxCloneNodes (SpecClone).
MaxCloneNodes == 4
\* ... fewer than MaxMoveNodes (SpecMove).
MaxMoveNodes == 3
\* ... fewer than MaxRunNodes (SpecRun).
MaxRunNodes == 3
\* The widest forest SpecConfig starts from.
MaxWide == 11

\* ... fewer than MaxCacheNodes (SpecCache).
MaxCacheNodes == 2
\* ... fewer than MaxLoadNodes (SpecLoad).
MaxLoadNodes == 3
\* ... fewer than MaxForestNodes (SpecForest).
MaxForestNodes == 3
\* tempfile hands out at most MaxMade random names.
MaxMade == 3
\* SpecStore keeps at most MaxFiles files on disk.
MaxFiles == 2
MaxId == MaxWide + MaxNodes
Ids == 1..MaxId

\* --------------------------------------------------------------- constants
\* Python's None, for an object reference, a string, a name and a colour.
NoItem == 0
None == "None"
NoName == <<>>
NoColor == <<>>
NoDir == 0
\* A file path: the dated folder and the file name, a sequence of pieces
\* of text in which an underscore is a piece of its own.  NoPath is None.
NoPath == [dir |-> NoDir, name |-> <<>>]

\* QtGui.QColor(r, g, b, a), channels 0..ColorMax.
ColorMax == 255
Red == <<ColorMax, 0, 0, ColorMax>>
Green == <<0, ColorMax, 0, ColorMax>>
Palette == {Red, Green}

\* The marker setIsEdited appends to a name.  A name is a sequence of
\* pieces of text; the marker is one piece.
EditedMark == " (edited)"

VARIABLES
    tree,   \* the forest of the Tree widget
    file,   \* the configuration file of the user
    last,   \* the handler that ran last, its arguments and whether it raised
    fs,     \* the scripts cache folder on disk: its dated folders and files
    env     \* os.environ["PROMETHEUS_SCRIPTS_DATE_CACHE"], NoDir when unset

vars == <<tree, file, last, fs, env>>

\* ------------------------------------------------------ TreeItem objects
\* TreeItem.__init__ with item=None: a checked item with no data.
NewTreeItem ==
    [parent |-> NoItem, kids |-> <<>>, name |-> NoName, type |-> None,
     file_path |-> None, code |-> None, group_color |-> NoColor,
     edited |-> FALSE, check |-> TRUE,
     default_icon |-> None, icon |-> "default", cache_file |-> NoPath]

\* str.replace("\t", "    ") on the code texts of the model.
Untab(code) ==
    CASE code = "if 1:\n\tpass" -> "if 1:\n    pass"
      [] OTHER -> code

\* TreeItem.getCode: the code with tabs converted to spaces.
getCode(T, n) == Untab(T.item[n].code)

\* TreeItem.isEnabled: whether the check box is checked.
isEnabled(T, n) == T.item[n].check

\* str.replace(" (edited)", ""): every occurrence of the marker is removed.
StripMark(name) == SelectSeq(name, LAMBDA piece : piece # EditedMark)

\* TreeItem.setIsEdited
setIsEdited(T, n, edited) ==
    LET it == T.item[n]
        nm == IF it.type = "Null" THEN it.name
              ELSE IF edited THEN Append(it.name, EditedMark)
              ELSE StripMark(it.name)
    IN  [T EXCEPT !.item[n].edited = edited, !.item[n].name = nm]

setGroupColor(T, n, color) == [T EXCEPT !.item[n].group_color = color]

\* ------------------------------------------------------- Qt's item tree
\* The smallest identifier no existing object has.
NewId(T) ==
    CHOOSE i \in Ids : i \notin DOMAIN T.item
                       /\ \A j \in 1..(i - 1) : j \in DOMAIN T.item

\* A new object with the given data, not in the tree yet.
Create(T, n, data) ==
    [T EXCEPT !.item = (n :> data) @@ T.item]

Without(s, x) == SelectSeq(s, LAMBDA y : y # x)

\* QTreeWidgetItem.addChild: c becomes the last child of p.
addChild(T, p, c) ==
    [T EXCEPT !.item[p].kids = Append(@, c), !.item[c].parent = p]

\* QTreeWidget.addTopLevelItem / invisibleRootItem().addChild: c becomes
\* the last top-level item; a top-level item has no parent().
addTopLevelItem(T, c) ==
    [T EXCEPT !.top = Append(@, c), !.item[c].parent = NoItem]

\* QTreeWidgetItem.takeChild(indexOfChild(c)): c leaves p, with its subtree.
takeChild(T, p, c) ==
    [T EXCEPT !.item[p].kids = Without(@, c), !.item[c].parent = NoItem]

\* QTreeWidget.takeTopLevelItem(indexOfTopLevelItem(c)): nothing is taken
\* when c is no top-level item of the widget (index -1).
takeTopLevelItem(T, c) ==
    [T EXCEPT !.top = Without(@, c)]

RECURSIVE getSubtreeItems(_, _)
RECURSIVE SubtreesOf(_, _)

\* Tree.getSubtreeItems: the item, then the subtree of each child in order.
getSubtreeItems(T, n) ==
    <<n>> \o SubtreesOf(T, T.item[n].kids)

\* The subtrees of the items of s, one after the other.
SubtreesOf(T, s) ==
    IF s = <<>> THEN <<>>
    ELSE getSubtreeItems(T, Head(s)) \o SubtreesOf(T, Tail(s))

\* A getAllItems that walks the top-level items from the last to the first.
getAllItemsLastFirst(T) ==
    SubtreesOf(T, [i \in 1..Len(T.top) |-> T.top[Len(T.top) + 1 - i]])

\* Tree.getAllItems
getAllItems(T) == SubtreesOf(T, T.top)

\* Tree.getTopLevelItems
getTopLevelItems(T) == T.top

\* Tree.getImmediateChildren
getImmediateChildren(T, n) ==
    SelectSeq(Tail(getSubtreeItems(T, n)), LAMBDA c : T.item[c].parent = n)

\* Tree.isTopLevelItem: an item with no parent(), in the widget or not.
isTopLevelItem(T, n) == T.item[n].parent = NoItem

Range(s) == {s[i] : i \in 1..Len(s)}

\* The objects of the widget: those under a top-level item.  The others are
\* unreferenced once a handler returns.
InTree(T) == Range(getAllItems(T))
Collect(T) == [T EXCEPT !.item = [n \in InTree(T) |-> T.item[n]]]

IndexOf(s, x) == CHOOSE i \in 1..Len(s) : s[i] = x

\* Which identifier an object has is not observable: between two handlers
\* the objects of the widget are numbered 1, 2, ... in the order of
\* getAllItems, and the detached ones are dropped.
Canon(T) ==
    LET all == getAllItems(T)
        pos(n) == IF n = NoItem THEN NoItem ELSE IndexOf(all, n)
    IN  [top  |-> [i \in 1..Len(T.top) |-> pos(T.top[i])],
         item |-> [i \in 1..Len(all) |->
                     [T.item[all[i]] EXCEPT !.parent = pos(@),
                                            !.kids = [j \in 1..Len(@) |-> pos(@[j])]]]]

\* ------------------------------------------------------------ handlers
\* A changeItemParent that gives the moved item the colour of its new parent.
changeItemParentTakesColor(T, n, new_parent) ==
    LET old_parent == T.item[n].parent
        taken == IF old_parent # NoItem THEN takeChild(T, old_parent, n)
                 ELSE takeTopLevelItem(T, n)
        moved == IF new_parent = NoItem THEN addTopLevelItem(taken, n)
                 ELSE addChild(taken, new_parent, n)
    IN  setGroupColor(moved, n, IF new_parent = NoItem THEN NoColor
                                ELSE T.item[new_parent].group_color)

\* A changeItemParent that does not take the item from where it is.
changeItemParentWithoutTake(T, n, new_parent) ==
    IF new_parent = NoItem THEN addTopLevelItem(T, n)
    ELSE addChild(T, new_parent, n)

\* Tree.changeItemParent
changeItemParent(T, n, new_parent) ==
    LET old_parent == T.item[n].parent
        taken == IF old_parent # NoItem THEN takeChild(T, old_parent, n)
                 ELSE takeTopLevelItem(T, n)
    IN  IF new_parent = NoItem THEN addTopLevelItem(taken, n)
        ELSE addChild(taken, new_parent, n)

RECURSIVE setGroupGradient(_, _, _)
RECURSIVE GradientLoop(_, _, _)

\* A setGroupGradient that colours the item alone, nothing below it.
setGroupGradientItemOnly(T, color, n) ==
    setGroupColor(T, n, color)

\* Tree.setGroupGradient: the item takes the colour, then so does every
\* item of its subtree, a Group only when it has no colour yet.
setGroupGradient(T, color, n) ==
    GradientLoop(setGroupColor(T, n, color), color, Tail(getSubtreeItems(T, n)))

\* The loop of setGroupGradient over the items s still to visit.
GradientLoop(T, color, s) ==
    IF s = <<>> THEN T
    ELSE LET i == Head(s)
             T1 == IF T.item[i].type = "Group"
                   THEN IF T.item[i].group_color = NoColor
                        THEN setGroupGradient(T, color, i)
                        ELSE T
                   ELSE setGroupColor(T, i, color)
         IN  GradientLoop(T1, color, Tail(s))

\* Tree.addNullItem
addNullItem(T, parent) ==
    LET n == NewId(T)
        T1 == Create(T, n, [NewTreeItem EXCEPT !.name = <<"Null">>,
                               !.type = "Null", !.code = "",
                               !.default_icon = "QPixmap"])
    IN  IF parent # NoItem
        THEN setGroupColor(addChild(T1, parent, n), n, T1.item[parent].group_color)
        ELSE addTopLevelItem(T1, n)

\* Tree.addGroupItem
addGroupItem(T, parent) ==
    LET n == NewId(T)
        T1 == Create(T, n, [NewTreeItem EXCEPT !.name = <<"Group">>,
                               !.type = "Group",
                               !.default_icon = "QPixmap"])
    IN  IF parent # NoItem
        THEN setGroupGradient(addChild(T1, parent, n), T1.item[parent].group_color, n)
        ELSE addTopLevelItem(T1, n)

\* Tree.removeItem: the children move under the item's parent, then the
\* item is taken.
RECURSIVE MoveAll(_, _, _)
MoveAll(T, s, new_parent) ==
    IF s = <<>> THEN T
    ELSE MoveAll(changeItemParent(T, Head(s), new_parent), Tail(s), new_parent)

\* The sequence s with its element x replaced by the elements of r.
RECURSIVE ReplacedBy(_, _, _)
ReplacedBy(s, x, r) ==
    IF s = <<>> THEN <<>>
    ELSE IF Head(s) = x THEN r \o Tail(s)
    ELSE <<Head(s)>> \o ReplacedBy(Tail(s), x, r)

\* A removeItem that puts the children at the place the item had among its
\* siblings.
removeItemInPlace(T, n) ==
    LET parent == T.item[n].parent
        children == T.item[n].kids
        moved == [m \in DOMAIN T.item |->
                    IF m = n THEN [T.item[m] EXCEPT !.kids = <<>>, !.parent = NoItem]
                    ELSE IF T.item[m].parent = n
                    THEN [T.item[m] EXCEPT !.parent = parent]
                    ELSE IF m = parent
                    THEN [T.item[m] EXCEPT !.kids = ReplacedBy(@, n, children)]
                    ELSE T.item[m]]
    IN  [T EXCEPT !.item = moved,
                  !.top = IF parent = NoItem THEN ReplacedBy(@, n, children)
                          ELSE @]

\* A removeItem that takes the item with its children still below it.
removeItemWithChildren(T, n) ==
    IF isTopLevelItem(T, n) THEN takeTopLevelItem(T, n)
    ELSE takeChild(T, T.item[n].parent, n)

removeItem(T, n) ==
    LET parent == T.item[n].parent
        children == getImmediateChildren(T, n)
    IN  IF isTopLevelItem(T, n)
        THEN takeTopLevelItem(MoveAll(T, children, NoItem), n)
        ELSE takeChild(MoveAll(T, children, parent), parent, n)

\* A removeTree that moves the children under the item's parent first.
removeTreeKeepsChildren(T, n) ==
    removeItem(T, n)

\* Tree.removeTree
removeTree(T, n) ==
    LET parent == T.item[n].parent
    IN  IF isTopLevelItem(T, n) THEN takeTopLevelItem(T, n)
        ELSE takeChild(T, parent, n)

\* A conversion that also takes the cache file of the other item.
ConvertedItemWithCacheFile(data) ==
    [NewTreeItem EXCEPT !.name = data.name, !.type = data.type,
        !.file_path = data.file_path, !.code = data.code,
        !.group_color = data.group_color,
        !.default_icon = "QIcon", !.icon = data.icon,
        !.cache_file = data.cache_file]

\* TreeItem.__init__ with item given (lines 64-70): a new item takes the
\* name, type, file path, code and group colour of the other; it is not
\* edited and it is checked.
ConvertedItem(data) ==
    [NewTreeItem EXCEPT !.name = data.name, !.type = data.type,
        !.file_path = data.file_path, !.code = data.code,
        !.group_color = data.group_color,
        !.default_icon = "QIcon", !.icon = data.icon]

\* A cloneItem that always adds the clone as a top-level item.
cloneItemAtTopLevel(T, n) ==
    LET clone == NewId(T)
        data == [ConvertedItem(T.item[n]) EXCEPT !.check = T.item[n].check]
    IN  addTopLevelItem(Create(T, clone, data), clone)

\* Tree.cloneItem: the clone is NewId(T).
cloneItem(T, n) ==
    LET clone == NewId(T)
        data == [ConvertedItem(T.item[n]) EXCEPT !.check = T.item[n].check]
        T1 == Create(T, clone, data)
        T2 == IF isTopLevelItem(T1, n) THEN addTopLevelItem(T1, clone)
              ELSE addChild(T1, T1.item[n].parent, clone)
    IN  IF T2.item[clone].type = "Group"
        THEN setGroupGradient(T2, T2.item[clone].group_color, clone)
        ELSE T2

\* The identifiers no existing object has, in ascending order.
RECURSIVE FreeFrom(_, _)
FreeFrom(T, i) ==
    IF i > MaxId THEN <<>>
    ELSE IF i \in DOMAIN T.item THEN FreeFrom(T, i + 1)
    ELSE <<i>> \o FreeFrom(T, i + 1)

\* QTreeWidgetItem.clone: a deep copy of the item and its subtree, all
\* plain QTreeWidgetItem objects (no Python attribute: not edited), the
\* copy of the item without a parent.  CloneOf(T, n, m) is the copy of m.
CloneOf(T, n, m) ==
    LET sub == getSubtreeItems(T, n)
    IN  FreeFrom(T, 1)[IndexOf(sub, m)]

QtClone(T, n) ==
    LET sub == getSubtreeItems(T, n)
        copy(m) == CloneOf(T, n, m)
        data(m) == [T.item[m] EXCEPT
                        !.parent = IF m = n THEN NoItem ELSE copy(@),
                        !.kids = [j \in 1..Len(@) |-> copy(@[j])],
                        !.edited = FALSE]
        copies == {copy(m) : m \in Range(sub)}
        orig(c) == CHOOSE m \in Range(sub) : copy(m) = c
    IN  [T EXCEPT !.item = [c \in copies |-> data(orig(c))] @@ T.item]

\* The loop of cloneTree over the items s of the plain copy: each becomes a
\* TreeItem, takes over the children of the plain item, and the plain item
\* is removed.
RECURSIVE CloneLoop(_, _)
CloneLoop(T, s) ==
    IF s = <<>> THEN T
    ELSE LET child == Head(s)
             new_clone == NewId(T)
             T1 == cloneItem(T, child)
             T2 == MoveAll(T1, getImmediateChildren(T1, child), new_clone)
         IN  CloneLoop(removeItem(T2, child), Tail(s))

\* Tree.cloneTree
cloneTree(T, n) ==
    LET base_clone == CloneOf(T, n, n)
        T1 == QtClone(T, n)
        T2 == IF T1.item[n].parent # NoItem
              THEN addChild(T1, T1.item[n].parent, base_clone)
              ELSE T1
    IN  CloneLoop(T2, getSubtreeItems(T2, base_clone))

\* TreeItem.iconTint: the overlay is painted over the default icon when
\* that is a QPixmap; otherwise nothing is done.
iconTint(T, n, overlay) ==
    IF T.item[n].default_icon = "QPixmap"
    THEN [T EXCEPT !.item[n].icon = overlay]
    ELSE T

\* exec(code) on the code texts of the model: it returns, raises an
\* Exception, or raises SystemExit, which is not an Exception.
Outcome(code) ==
    CASE code = "raise" -> "Exception"
      [] code = "raise SystemExit" -> "SystemExit"
      [] OTHER -> "ok"

\* A run that also requires the parent of an item to be checked.
RECURSIVE RunLoopUnderEnabled(_, _)
RunLoopUnderEnabled(R, items) ==
    IF items = <<>> THEN R
    ELSE LET item == Head(items)
             parent == R.T.item[item].parent
             T1 == iconTint(iconTint(R.T, item, "red"), item, "yellow")
         IN  IF /\ R.T.item[item].type # "Group" /\ R.T.item[item].check
                /\ (parent = NoItem \/ R.T.item[parent].check)
             THEN CASE Outcome(getCode(T1, item)) = "ok" ->
                        RunLoopUnderEnabled(
                            [R EXCEPT !.T = iconTint(T1, item, "green"),
                                      !.ran = Append(@, item)],
                            Tail(items))
                    [] Outcome(getCode(T1, item)) = "Exception" ->
                        [T |-> iconTint(T1, item, "red"),
                         ran |-> Append(R.ran, item),
                         raised |-> TRUE, failed |-> item]
                    [] OTHER ->
                        [T |-> T1, ran |-> Append(R.ran, item),
                         raised |-> TRUE, failed |-> item]
             ELSE RunLoopUnderEnabled(R, Tail(items))

\* The loop of BuildTab.runBuildTree over the items still to visit.  R is
\* [T, ran, raised, failed]: the tree, the items whose code exec was
\* called on, whether an exception left the loop and from which item.
RECURSIVE RunLoop(_, _)
RunLoop(R, items) ==
    IF items = <<>> THEN R
    ELSE LET item == Head(items)
             T1 == iconTint(iconTint(R.T, item, "red"), item, "yellow")
         IN  IF R.T.item[item].type # "Group" /\ R.T.item[item].check
             THEN CASE Outcome(getCode(T1, item)) = "ok" ->
                        RunLoop([R EXCEPT !.T = iconTint(T1, item, "green"),
                                          !.ran = Append(@, item)],
                                Tail(items))
                    [] Outcome(getCode(T1, item)) = "Exception" ->
                        [T |-> iconTint(T1, item, "red"),
                         ran |-> Append(R.ran, item),
                         raised |-> TRUE, failed |-> item]
                    [] OTHER ->
                        [T |-> T1, ran |-> Append(R.ran, item),
                         raised |-> TRUE, failed |-> item]
             ELSE RunLoop(R, Tail(items))

\* BuildTab.runBuildTree
runBuildTree(T) ==
    RunLoop([T |-> T, ran |-> <<>>, raised |-> FALSE, failed |-> NoItem],
            getAllItems(T))

\* Tree.updateItemCode: the text of the code editor becomes the code.
updateItemCode(T, n, text) ==
    LET T1 == [T EXCEPT !.item[n].code = text]
    IN  IF ~T1.item[n].edited THEN setIsEdited(T1, n, TRUE) ELSE T1

\* QTreeWidget.dropEvent for a move inside the widget: the held item, with
\* its subtree, goes on the target (its last child), above or below the
\* target (a sibling), or, dropped on the empty viewport, to the end of the
\* top level.
InsertAt(s, i, x) == SubSeq(s, 1, i - 1) \o <<x>> \o SubSeq(s, i, Len(s))

QtInsert(T, parent, i, c) ==
    IF parent = NoItem
    THEN [T EXCEPT !.top = InsertAt(@, i, c), !.item[c].parent = NoItem]
    ELSE [T EXCEPT !.item[parent].kids = InsertAt(@, i, c),
                   !.item[c].parent = parent]

QtDropMove(T, held, where, target) ==
    LET old_parent == T.item[held].parent
        taken == IF old_parent # NoItem THEN takeChild(T, old_parent, held)
                 ELSE takeTopLevelItem(T, held)
        p == IF target = NoItem THEN NoItem ELSE taken.item[target].parent
        sibs == IF p = NoItem THEN taken.top ELSE taken.item[p].kids
    IN  CASE where = "viewport" -> addTopLevelItem(taken, held)
          [] where = "on" -> addChild(taken, target, held)
          [] where = "above" -> QtInsert(taken, p, IndexOf(sibs, target), held)
          [] where = "below" -> QtInsert(taken, p, IndexOf(sibs, target) + 1, held)

\* The loop of dropEvent over the items s of the held subtree: an item
\* whose parent is the item under the cursor takes its colour.
RECURSIVE DropColorLoop(_, _, _)
DropColorLoop(T, s, parent_item) ==
    IF s = <<>> THEN T
    ELSE LET child == Head(s)
             T1 == IF parent_item = NoItem THEN setGroupColor(T, child, NoColor)
                   ELSE IF T.item[child].parent = parent_item
                   THEN setGroupColor(T, child, T.item[parent_item].group_color)
                   ELSE T
         IN  DropColorLoop(T1, Tail(s), parent_item)

\* Tree.dropEvent, event.source() is self.  parent_item is the item under
\* the cursor (itemAt), None over the empty viewport.
dropEventSelf(T, held_item, where, parent_item) ==
    LET T1 == QtDropMove(T, held_item, where, parent_item)
    IN  IF T1.item[held_item].type # "Group"
        THEN DropColorLoop(T1, getSubtreeItems(T1, held_item), parent_item)
        ELSE T1

\* A groupItems that always makes the Group a top-level item.
groupItemsAtTopLevel(T, selected_items) ==
    MoveAll(addGroupItem(T, NoItem), selected_items, NewId(T))

\* Tree.groupItems: selected_items is selectedItems(), in Qt's order.
groupItems(T, selected_items) ==
    LET parents == {T.item[selected_items[i]].parent : i \in 1..Len(selected_items)}
        group_parent == IF Cardinality(parents) = 1
                        THEN CHOOSE p \in parents : TRUE
                        ELSE NoItem
        group == NewId(T)
    IN  MoveAll(addGroupItem(T, group_parent), selected_items, group)

\* Tree.dropEvent, event.source() is a QListWidget: the selected list item
\* becomes a Script item under the item at the cursor, or a top-level item.
dropEventList(T, list_item, tree_item) ==
    LET n == NewId(T)
        T1 == Create(T, n, [NewTreeItem EXCEPT !.name = list_item.name,
                               !.type = list_item.type,
                               !.file_path = list_item.file_path,
                               !.code = list_item.code,
                               !.default_icon = "QPixmap"])
    IN  IF tree_item # NoItem
        THEN setGroupColor(addChild(T1, tree_item, n), n,
                           T1.item[tree_item].group_color)
        ELSE setGroupColor(addTopLevelItem(T1, n), n, T1.item[n].group_color)

\* Tree.disableTree / Tree.enableTree: the check boxes of the subtree.
RECURSIVE CheckLoop(_, _, _)
CheckLoop(T, s, state) ==
    IF s = <<>> THEN T
    ELSE CheckLoop([T EXCEPT !.item[Head(s)].check = state], Tail(s), state)

enableTree(T, n) == CheckLoop(T, getSubtreeItems(T, n), TRUE)
disableTree(T, n) == CheckLoop(T, getSubtreeItems(T, n), FALSE)

\* ------------------------------------------------- the configuration codec
\* QColor.getRgbF: the channels as floats in 0..1, here the fractions
\* <<numerator, denominator>>; no colour is saved as null.
getRgbF(color) == [i \in 1..4 |-> <<color[i], ColorMax>>]

\* QColor.fromRgbF: each float back to a channel, rounded.
fromRgbF(f) ==
    [i \in 1..4 |-> (2 * f[i][1] * ColorMax + f[i][2]) \div (2 * f[i][2])]

\* The dictionary getConfigChildList and saveConfig build for one item.
ConfigData(T, child) ==
    [name |-> T.item[child].name,
     type |-> T.item[child].type,
     file_path |-> T.item[child].file_path,
     code |-> getCode(T, child),
     group_color |-> IF T.item[child].group_color # NoColor
                     THEN getRgbF(T.item[child].group_color)
                     ELSE NoColor,
     is_edited |-> T.item[child].edited,
     is_enabled |-> isEnabled(T, child)]

\* Tree.getConfigChildList
getConfigChildList(T, children) ==
    [x \in 1..Len(children) |-> ConfigData(T, children[x])]

\* Tree.hierarchyTree: the dictionary of the children of parent, keyed by
\* their index 0, 1, ...; each value is (data, dictionary of its children).
RECURSIVE hierarchyTree(_, _)
hierarchyTree(T, parent) ==
    LET children == getImmediateChildren(T, parent)
        child_list == getConfigChildList(T, children)
    IN  [x \in 0..(Len(children) - 1) |->
            <<child_list[x + 1],
              IF getImmediateChildren(T, children[x + 1]) # <<>>
              THEN hierarchyTree(T, children[x + 1])
              ELSE <<>> >>]

\* The config_dict of Tree.saveConfig.
ConfigDict(T) ==
    LET top_items == getTopLevelItems(T)
    IN  [x \in 0..(Len(top_items) - 1) |->
            <<ConfigData(T, top_items[x + 1]), hierarchyTree(T, top_items[x + 1])>>]

\* str(x) of an index: its decimal digits.
RECURSIVE Str(_)
Str(x) == IF x < 10 THEN <<x>> ELSE Str(x \div 10) \o <<x % 10>>

\* json.dump (json_utils.saveJson): the integer keys of a dictionary are
\* written as strings, at every level.
RECURSIVE JsonDump(_)
JsonDump(d) ==
    LET key(k) == CHOOSE x \in DOMAIN d : Str(x) = k
    IN  [k \in {Str(x) : x \in DOMAIN d} |->
            <<d[key(k)][1], JsonDump(d[key(k)][2])>>]

\* Tree.saveConfig, with a file chosen in the dialog: what is written.
saveConfig(T) == JsonDump(ConfigDict(T))

\* a < b for two strings of digits, as Python compares strings.
StrLess(a, b) ==
    \E i \in 1..(Len(a) + 1) :
        /\ i <= Len(b)
        /\ \A j \in 1..(i - 1) : a[j] = b[j]
        /\ (i = Len(a) + 1 \/ a[i] < b[i])

\* sorted(tree_dict): the keys of the loaded dictionary, which are strings,
\* in ascending order.
RECURSIVE sorted(_)
sorted(keys) ==
    IF keys = {} THEN <<>>
    ELSE LET least == CHOOSE k \in keys : \A o \in keys \ {k} : StrLess(k, o)
         IN  <<least>> \o sorted(keys \ {least})

\* The keys buildConfigChildData reads of an item's data.
RequiredKeys ==
    {"name", "type", "file_path", "code", "is_edited", "is_enabled", "group_color"}

\* Lines 984-1007 (and 1028-1051): the new TreeItem n made from child_data,
\* not in the tree yet.
ItemFromData(T, n, child_data) ==
    LET T1 == Create(T, n, [NewTreeItem EXCEPT !.name = child_data["name"],
                               !.type = child_data["type"],
                               !.file_path = child_data["file_path"],
                               !.code = child_data["code"],
                               !.default_icon = "QPixmap"])
        T2 == setIsEdited(T1, n, child_data["is_edited"])
        T3 == [T2 EXCEPT !.item[n].check = child_data["is_enabled"]]
    IN  IF child_data["group_color"] # NoColor
        THEN LET T4 == setGroupColor(T3, n, fromRgbF(child_data["group_color"]))
             IN  IF T4.item[n].type = "Group"
                 THEN setGroupGradient(T4, T4.item[n].group_color, n)
                 ELSE T4
        ELSE T3

\* Tree.buildConfigChildData, and Tree.buildConfigParentData with the
\* invisible root item as parent.  R is [T, raised]: the tree so far and
\* whether a KeyError was raised, which ends the load where it is.
RECURSIVE buildConfigChildData(_, _, _)
RECURSIVE BuildLoop(_, _, _, _)

buildConfigChildData(R, parent, tree_dict) ==
    BuildLoop(R, parent, tree_dict, sorted(DOMAIN tree_dict))

BuildLoop(R, parent, tree_dict, keys) ==
    IF keys = <<>> \/ R.raised THEN R
    ELSE LET child_data == tree_dict[Head(keys)][1]
             grandchild_data == tree_dict[Head(keys)][2]
             n == NewId(R.T)
         IN  IF ~(RequiredKeys \subseteq DOMAIN child_data)
             THEN [R EXCEPT !.raised = TRUE]
             ELSE LET T1 == ItemFromData(R.T, n, child_data)
                      T2 == IF parent = NoItem THEN addTopLevelItem(T1, n)
                            ELSE addChild(T1, parent, n)
                      R1 == [T |-> T2, raised |-> FALSE]
                      R2 == IF DOMAIN grandchild_data # {}
                            THEN buildConfigChildData(R1, n, grandchild_data)
                            ELSE R1
                  IN  BuildLoop(R2, parent, tree_dict, Tail(keys))

buildConfigParentData(T, tree_dict) ==
    buildConfigChildData([T |-> T, raised |-> FALSE], NoItem, tree_dict)

\* Tree.loadConfig: the tree is cleared, then built from the dictionary
\* json_utils.loadAsJson returns: None when the dialog is cancelled or
\* the file does not exist, else the content of the file.
\* The configuration file: whether it exists, and the json in it.
NoFile == [exists |-> FALSE, json |-> <<>>]
FileOf(json) == [exists |-> TRUE, json |-> json]
EmptyTree == [top |-> <<>>, item |-> <<>>]

\* A loadConfig that leaves the tree as it is when nothing is read.
loadConfigKeepsTree(T, picked) ==
    IF picked.exists /\ DOMAIN picked.json # {}
    THEN buildConfigParentData(EmptyTree, picked.json)
    ELSE [T |-> T, raised |-> FALSE]

\* Tree.loadConfig: clear(), then the items of the picked file.  picked
\* is NoFile when the dialog is cancelled or the file does not exist
\* (loadAsJson returns None).
loadConfig(T, picked) ==
    IF picked.exists /\ DOMAIN picked.json # {}
    THEN buildConfigParentData(EmptyTree, picked.json)
    ELSE [T |-> EmptyTree, raised |-> FALSE]

\* ---------------------------------------------------------- cache store
\* The disk under the scripts cache folder: whether that folder exists
\* (root), its dated folders (dirs), the files in them (files: path to
\* text) and how many random names tempfile has handed out (made).
NoCache == [root |-> TRUE, dirs |-> {}, files |-> [p \in {} |-> ""], made |-> 0]

\* The random part of the names tempfile.mkdtemp and tempfile.mkstemp make:
\* a name that was never made before.
RandomChars == <<"r1", "r2", "r3", "r4", "r5", "r6", "r7", "r8">>

\* What is left of the files when the folders ds are deleted.
FilesOutside(F, ds) ==
    [p \in {q \in DOMAIN F.files : q.dir \notin ds} |-> F.files[p]]

\* cache_utils.deleteDirectory on dated folders: shutil.rmtree.
deleteDirectory(F, ds) ==
    [F EXCEPT !.dirs = @ \ ds, !.files = FilesOutside(F, ds)]

\* cache_utils.initScriptsCacheFolder: makes the scripts cache folder if
\* it is missing.
initScriptsCacheFolder(F) == [F EXCEPT !.root = TRUE]

\* cache_utils.flushOutdatedCache: os.walk visits the scripts cache folder
\* itself and then its dated folders, and deletes each one whose
\* modification time is more than five days back: old_root, old.
flushOutdatedCache(F, old_root, old) ==
    IF ~F.root THEN F
    ELSE IF old_root
    THEN [deleteDirectory(F, F.dirs) EXCEPT !.root = FALSE]
    ELSE deleteDirectory(F, old)

\* cache_utils.flushCachedChildren: deletes every folder in the scripts
\* cache folder.
flushCachedChildren(F) == deleteDirectory(F, F.dirs)

\* An initDateFolder that makes a new dated folder on every call, whether
\* the environment variable is set or not.
initDateFolderAlwaysNew(F, e) ==
    IF F.root
    THEN LET d == F.made + 1
         IN  [fs |-> [F EXCEPT !.dirs = @ \cup {d}, !.made = d], env |-> d,
              result |-> d, raised |-> FALSE]
    ELSE [fs |-> F, env |-> e, result |-> NoDir, raised |-> FALSE]

\* cache_utils.initDateFolder(directory, env_var) on the disk F with the
\* environment variable e: what it leaves on disk (fs), in the variable
\* (env), what it returns (result, NoDir for None) and whether it raised.
initDateFolder(F, e) ==
    IF e # NoDir
    THEN IF e \in F.dirs
         THEN [fs |-> F, env |-> e, result |-> NoDir, raised |-> FALSE]
         ELSE IF F.root
         THEN [fs |-> [F EXCEPT !.dirs = @ \cup {e}], env |-> e,
               result |-> NoDir, raised |-> FALSE]
         ELSE [fs |-> F, env |-> e, result |-> NoDir, raised |-> TRUE]
    ELSE IF F.root
    THEN LET d == F.made + 1
         IN  [fs |-> [F EXCEPT !.dirs = @ \cup {d}, !.made = d], env |-> d,
              result |-> d, raised |-> FALSE]
    ELSE [fs |-> F, env |-> NoDir, result |-> NoDir, raised |-> FALSE]

\* cache_utils.writeTempFile(directory, prefix, extension, data):
\* tempfile.mkstemp(suffix=".py", prefix=prefix + "_", dir=directory) and
\* os.write of the data.
writeTempFile(F, directory, prefix, data) ==
    IF directory \notin F.dirs
    THEN [fs |-> F, result |-> NoPath, raised |-> TRUE]
    ELSE LET path == [dir |-> directory,
                      name |-> prefix \o <<"_", RandomChars[F.made + 1], ".py">>]
         IN  [fs |-> [F EXCEPT !.files = (path :> data) @@ @, !.made = @ + 1],
              result |-> path, raised |-> FALSE]

\* cache_utils.updateTempFile(filepath, data): open(filepath, "w+"),
\* truncate, write.  Mode "w+" makes the file when it is not there; open
\* raises only when the folder is not there.
updateTempFile(F, filepath, data) ==
    IF filepath.dir \notin F.dirs
    THEN [fs |-> F, raised |-> TRUE]
    ELSE [fs |-> [F EXCEPT !.files = (filepath :> data) @@ @],
          raised |-> FALSE]

\* str.split("__")[-1]: what follows the last separator the scan from the
\* left finds, the whole text when it finds none.
RECURSIVE SplitLast(_, _)
SplitLast(s, acc) ==
    IF s = <<>> THEN acc
    ELSE IF Len(s) >= 2 /\ s[1] = "_" /\ s[2] = "_"
    THEN SplitLast(SubSeq(s, 3, Len(s)), <<>>)
    ELSE SplitLast(Tail(s), Append(acc, s[1]))

\* cache_utils.renameCacheFile(filepath, new_name): os.rename to
\* new_name + "__" + old_name.split("__")[-1] in the same folder.
\* os.rename raises when the file is not there.
renameCacheFile(F, filepath, new_name) ==
    LET new_path == [dir |-> filepath.dir,
                     name |-> new_name \o <<"_", "_">> \o SplitLast(filepath.name, <<>>)]
        rest == {p \in DOMAIN F.files : p # filepath} \cup {new_path}
    IN  IF filepath \notin DOMAIN F.files
        THEN [fs |-> F, result |-> NoPath, raised |-> TRUE]
        ELSE [fs |-> [F EXCEPT !.files =
                         [p \in rest |-> IF p = new_path THEN F.files[filepath]
                                         ELSE F.files[p]]],
              result |-> new_path, raised |-> FALSE]

\* ------------------------------------------------- the tree and its cache
\* A world W is the tree T, the disk fs and the environment variable env.
\* Tree.cacheItemCode: with the variable set and its folder on disk, the
\* item's cache file is rewritten, or made and remembered when the item
\* has none.  raised: updateTempFile raised.
cacheItemCode(W, n) ==
    LET it == W.T.item[n]
        data == getCode(W.T, n)
        upd == updateTempFile(W.fs, it.cache_file, data)
        new == writeTempFile(W.fs, W.env, Append(it.name, "_"), data)
    IN  IF W.env = NoDir \/ W.env \notin W.fs.dirs
        THEN [W |-> W, raised |-> FALSE]
        ELSE IF it.cache_file # NoPath
        THEN [W |-> [W EXCEPT !.fs = upd.fs], raised |-> upd.raised]
        ELSE [W |-> [W EXCEPT !.fs = new.fs,
                              !.T.item[n].cache_file = new.result],
              raised |-> FALSE]

\* Tree.itemDataChangedEvent, the slot of the model's dataChanged signal:
\* an item that is no Group is cached.  What the slot raises stays in
\* the slot.
itemDataChangedEvent(W, n) ==
    IF W.T.item[n].type # "Group" THEN cacheItemCode(W, n).W ELSE W

\* A setter of item n took W.T to T1: dataChanged is emitted when the data
\* differ from what they were.
DataChanged(W, T1, n) ==
    IF T1.item[n] # W.T.item[n]
    THEN itemDataChangedEvent([W EXCEPT !.T = T1], n)
    ELSE [W EXCEPT !.T = T1]

\* Tree.addNullItem with the cache: cacheItemCode on the new item.
addNullItemCached(W, parent) ==
    cacheItemCode([W EXCEPT !.T = addNullItem(W.T, parent)], NewId(W.T)).W

\* Tree.dropEvent, list branch, with the cache: cacheItemCode on the new
\* item.
dropEventListCached(W, list_item, tree_item) ==
    cacheItemCode([W EXCEPT !.T = dropEventList(W.T, list_item, tree_item)],
                  NewId(W.T)).W

\* Tree.updateItemCode with the cache: setCode, then setIsEdited on an
\* item not edited yet, each followed by its dataChanged.
updateItemCodeCached(W, n, text) ==
    LET W1 == DataChanged(W, [W.T EXCEPT !.item[n].code = text], n)
    IN  IF ~W1.T.item[n].edited
        THEN DataChanged(W1, setIsEdited(W1.T, n, TRUE), n)
        ELSE W1

\* open(file_path).read(): the text of the script file.
SourceCode(file_path) ==
    CASE file_path = "lib/mod.py" -> "if 1:\n\tpass"
      [] OTHER -> ""

\* A revertItemCode that sets the code and leaves the edited flag.
revertItemCodeOnly(W, n) ==
    LET fp == W.T.item[n].file_path
        code == IF fp # None THEN SourceCode(fp) ELSE ""
    IN  DataChanged(W, [W.T EXCEPT !.item[n].code = code], n)

\* Tree.revertItemCode: the code of the script file, or "" without a file,
\* and the item is not edited any more.
revertItemCode(W, n) ==
    LET fp == W.T.item[n].file_path
        code == IF fp # None THEN SourceCode(fp) ELSE ""
        W1 == DataChanged(W, [W.T EXCEPT !.item[n].code = code], n)
    IN  DataChanged(W1, setIsEdited(W1.T, n, FALSE), n)

\* A renameItem that leaves the item as it was when the rename of the
\* cache file raises.
renameItemOrNothing(W, n, new_name) ==
    LET it == W.T.item[n]
        nm == IF it.edited /\ it.type # "Null"
              THEN Append(new_name, EditedMark) ELSE new_name
        W1 == DataChanged(W, [W.T EXCEPT !.item[n].name = nm], n)
        ren == renameCacheFile(W1.fs, W1.T.item[n].cache_file, nm)
        W2 == [W1 EXCEPT !.fs = ren.fs]
    IN  IF W1.T.item[n].cache_file = NoPath \/ ren.raised
        THEN [W |-> W, raised |-> TRUE]
        ELSE [W |-> DataChanged(W2, [W2.T EXCEPT !.item[n].cache_file = ren.result], n),
              raised |-> FALSE]

\* Tree.renameItem with the dialog accepted: setName, renameCacheFile on
\* the item's cache file, setCacheFile.  renameCacheFile raises on an item
\* without a cache file (None) and on a cache file that is not on disk;
\* the name is set by then.
renameItem(W, n, new_name) ==
    LET it == W.T.item[n]
        nm == IF it.edited /\ it.type # "Null"
              THEN Append(new_name, EditedMark) ELSE new_name
        W1 == DataChanged(W, [W.T EXCEPT !.item[n].name = nm], n)
        ren == renameCacheFile(W1.fs, W1.T.item[n].cache_file, nm)
        W2 == [W1 EXCEPT !.fs = ren.fs]
    IN  IF W1.T.item[n].cache_file = NoPath \/ ren.raised
        THEN [W |-> W1, raised |-> TRUE]
        ELSE [W |-> DataChanged(W2, [W2.T EXCEPT !.item[n].cache_file = ren.result], n),
              raised |-> FALSE]

\* BuildTab.flushCachedScripts, answered Yes: the environment variable is
\* deleted and every dated folder with it.  The items are not touched.
flushCachedScripts(W) ==
    [W EXCEPT !.env = NoDir, !.fs = flushCachedChildren(W.fs)]

\* PrometheusWindow.initCacheFolders: initScriptsCacheFolder,
\* flushOutdatedCache, initDateFolder, whose result is dropped.
initCacheFolders(F, e, old_root, old) ==
    initDateFolder(flushOutdatedCache(initScriptsCacheFolder(F), old_root, old), e)

\* ------------------------------------------------------------- actions
NoArg == <<>>

Size(T) == Cardinality(DOMAIN T.item)
Siblings(T, n) ==
    IF T.item[n].parent = NoItem THEN T.top ELSE T.item[T.item[n].parent].kids

\* last: which handler ran last and whether it raised.
Did(op) ==
    [op |-> op, item |-> NoItem, err |-> FALSE,
     root |-> TRUE, kids |-> FALSE, lastsib |-> TRUE, ran |-> <<>>]

\* ... on item n, which keeps its number.
DidAt(op, n) == [Did(op) EXCEPT !.item = n]

\* ... with what held of its item n before it ran: whether it was a
\* top-level item, had children, was the last of its siblings.
DidTo(op, n) ==
    [Did(op) EXCEPT !.root = tree.item[n].parent = NoItem,
                    !.kids = tree.item[n].kids # <<>>,
                    !.lastsib = Siblings(tree, n)[Len(Siblings(tree, n))] = n]

Items == DOMAIN tree.item
ParentChoices == {NoItem} \cup Items

\* The scripts of the list widget (List.updateListItems): name, type
\* Script, the file and its text.
ListItems ==
    {[name |-> <<"mod">>, type |-> "Script", file_path |-> "lib/mod.py",
      code |-> "if 1:\n\tpass"]}

\* What the user types in the code editor.
EditorTexts == {"pass"}

\* The scripts of the list widget in SpecRun: one that returns, one that
\* raises an Exception, one that raises SystemExit.
RunListItems ==
    {[name |-> <<"ok">>, type |-> "Script", file_path |-> "lib/ok.py",
      code |-> "pass"],
     [name |-> <<"bad">>, type |-> "Script", file_path |-> "lib/bad.py",
      code |-> "raise"],
     [name |-> <<"exit">>, type |-> "Script", file_path |-> "lib/exit.py",
      code |-> "raise SystemExit"]}

\* The world of the current state.
World == [T |-> tree, fs |-> fs, env |-> env]

\* tempfile has a name left to hand out, where the cache is in use.
CanMake == env = NoDir \/ fs.made < MaxMade

AddNullItem(max) ==
    \E parent \in ParentChoices :
        LET W == addNullItemCached(World, parent)
        IN  /\ Size(tree) < max
            /\ CanMake
            /\ tree' = Canon(W.T)
            /\ fs' = W.fs
            /\ last' = Did("addNullItem")
            /\ UNCHANGED <<file, env>>

AddGroupItem(max) ==
    \E parent \in ParentChoices :
        /\ Size(tree) < max
        /\ tree' = Canon(addGroupItem(tree, parent))
        /\ last' = Did("addGroupItem")
        /\ UNCHANGED <<file, fs, env>>

\* The "Set Group Color" menu of a Group item: a colour of the palette, or
\* None for the transparent entry (ColorAction.handleButton).
SetGroupGradient ==
    \E n \in Items, color \in Palette \cup {NoColor} :
        /\ tree.item[n].type = "Group"
        /\ tree' = Canon(setGroupGradient(tree, color, n))
        /\ last' = DidAt("setGroupGradient", n)
        /\ UNCHANGED <<file, fs, env>>

RemoveItem ==
    \E n \in Items :
        /\ tree' = Canon(removeItem(tree, n))
        /\ last' = DidTo("removeItem", n)
        /\ UNCHANGED <<file, fs, env>>

RemoveTree ==
    \E n \in Items :
        /\ tree' = Canon(removeTree(tree, n))
        /\ last' = DidTo("removeTree", n)
        /\ UNCHANGED <<file, fs, env>>

\* changeItemParent(n, new_parent), new_parent an item outside the subtree
\* of n or the invisible root item.
ChangeItemParent ==
    \E n \in Items :
        \E new_parent \in ParentChoices \ Range(getSubtreeItems(tree, n)) :
            /\ tree' = Canon(changeItemParent(tree, n, new_parent))
            /\ last' = DidTo("changeItemParent", n)
            /\ UNCHANGED <<file, fs, env>>

CloneItem(max) ==
    \E n \in Items :
        /\ Size(tree) < max
        /\ tree' = Canon(cloneItem(tree, n))
        /\ last' = DidTo("cloneItem", n)
        /\ UNCHANGED <<file, fs, env>>

CloneTree(max) ==
    \E n \in Items :
        /\ Size(tree) + Len(getSubtreeItems(tree, n)) <= max
        /\ tree' = Canon(cloneTree(tree, n))
        /\ last' = DidTo("cloneTree", n)
        /\ UNCHANGED <<file, fs, env>>

\* A drag of the current item and its drop inside the widget.  Qt refuses a
\* drop on the held item or inside its subtree.
DropSelf ==
    \E held \in Items, where \in {"on", "above", "below", "viewport"},
       target \in ParentChoices :
        /\ (where = "viewport") = (target = NoItem)
        /\ target \notin Range(getSubtreeItems(tree, held))
        /\ tree' = Canon(dropEventSelf(tree, held, where, target))
        /\ last' = Did("dropEvent")
        /\ UNCHANGED <<file, fs, env>>

\* A drop of one script of the list widget.
DropList(max, list_items) ==
    \E list_item \in list_items, tree_item \in ParentChoices :
        LET W == dropEventListCached(World, list_item, tree_item)
        IN  /\ Size(tree) < max
            /\ CanMake
            /\ tree' = Canon(W.T)
            /\ fs' = W.fs
            /\ last' = Did("dropEventList")
            /\ UNCHANGED <<file, env>>

\* Ctrl+G with up to two items selected.
GroupItems(max) ==
    \E a \in ParentChoices, b \in ParentChoices :
        /\ Size(tree) < max
        /\ a = NoItem => b = NoItem
        /\ a # NoItem => a # b
        /\ tree' = Canon(groupItems(tree, SelectSeq(<<a, b>>, LAMBDA x : x # NoItem)))
        /\ last' = Did("groupItems")
        /\ UNCHANGED <<file, fs, env>>

\* A text change in the code editor opened on a Script or Null item.
UpdateItemCode ==
    \E n \in Items, text \in EditorTexts :
        LET W == updateItemCodeCached(World, n, text)
        IN  /\ tree.item[n].type # "Group"
            /\ CanMake
            /\ tree' = Canon(W.T)
            /\ fs' = W.fs
            /\ last' = DidAt("updateItemCode", n)
            /\ UNCHANGED <<file, env>>

\* "Revert Code" in the item menu.
RevertItemCode ==
    \E n \in Items :
        LET W == revertItemCode(World, n)
        IN  /\ CanMake
            /\ tree' = Canon(W.T)
            /\ fs' = W.fs
            /\ last' = DidAt("revertItemCode", n)
            /\ UNCHANGED <<file, env>>

\* What the user types in the rename dialog.
NewNames == {<<"new">>}

\* "Rename" in the item menu, the dialog accepted.
RenameItem ==
    \E n \in Items, new_name \in NewNames :
        LET R == renameItem(World, n, new_name)
        IN  /\ CanMake
            /\ tree' = Canon(R.W.T)
            /\ fs' = R.W.fs
            /\ last' = [DidAt("renameItem", n) EXCEPT !.err = R.raised]
            /\ UNCHANGED <<file, env>>

\* "Flush Cached Scripts", answered Yes.
FlushCachedScripts ==
    LET W == flushCachedScripts(World)
    IN  /\ fs' = W.fs
        /\ env' = W.env
        /\ last' = Did("flushCachedScripts")
        /\ UNCHANGED <<tree, file>>

\* PrometheusWindow(): the window is made again, with a new, empty tree,
\* in the same process, which keeps the environment variable, or in a new
\* process, where it is unset.
OpenWindow(new_process) ==
    \E old_root \in BOOLEAN, old \in SUBSET fs.dirs :
        LET R == initCacheFolders(fs, IF new_process THEN NoDir ELSE env,
                                  old_root, old)
        IN  /\ fs.made < MaxMade
            /\ fs' = R.fs
            /\ env' = R.env
            /\ tree' = EmptyTree
            /\ last' = [Did("initCacheFolders") EXCEPT !.err = R.raised]
            /\ UNCHANGED file

NewWindow == \E new_process \in BOOLEAN : OpenWindow(new_process)

\* The "Run Script Tree" button.
RunBuildTree ==
    LET R == runBuildTree(tree)
    IN  /\ tree' = R.T
        /\ last' = [Did("runBuildTree") EXCEPT !.err = R.raised,
                        !.item = R.failed, !.ran = R.ran]
        /\ UNCHANGED <<file, fs, env>>

DisableTree ==
    \E n \in Items :
        /\ tree' = Canon(disableTree(tree, n))
        /\ last' = DidAt("disableTree", n)
        /\ UNCHANGED <<file, fs, env>>

EnableTree ==
    \E n \in Items :
        /\ tree' = Canon(enableTree(tree, n))
        /\ last' = DidAt("enableTree", n)
        /\ UNCHANGED <<file, fs, env>>

\* "Save Config" with a file chosen in the dialog.
SaveConfig ==
    /\ file' = FileOf(saveConfig(tree))
    /\ last' = Did("saveConfig")
    /\ UNCHANGED <<tree, fs, env>>

\* "Load Config": the dialog is cancelled, or the configuration file is
\* chosen.  A KeyError leaves the tree as built so far.
LoadConfig ==
    \E picked \in BOOLEAN :
        LET R == loadConfig(tree, IF picked THEN file ELSE NoFile)
        IN  /\ tree' = Canon(R.T)
            /\ last' = [Did(IF picked THEN "loadConfig" ELSE "loadConfigCancelled")
                           EXCEPT !.err = R.raised]
            /\ UNCHANGED <<file, fs, env>>

\* The configuration file is a file of the user's: an entry of it loses
\* one of its keys outside the tool.
RECURSIVE EntryPaths(_)
EntryPaths(d) ==
    UNION {{<<k>>} \cup {<<k>> \o p : p \in EntryPaths(d[k][2])} : k \in DOMAIN d}

RECURSIVE WithoutKey(_, _, _)
WithoutKey(d, path, key) ==
    IF Len(path) = 1
    THEN [d EXCEPT ![path[1]] =
            <<[k \in (DOMAIN @[1]) \ {key} |-> @[1][k]], @[2]>>]
    ELSE [d EXCEPT ![path[1]] = <<@[1], WithoutKey(@[2], Tail(path), key)>>]

DamagedKeys == {"name", "group_color"}

DamageFile ==
    /\ file.exists
    /\ \E path \in EntryPaths(file.json), key \in DamagedKeys :
            file' = FileOf(WithoutKey(file.json, path, key))
    /\ last' = Did("damageFile")
    /\ UNCHANGED <<tree, fs, env>>

\* ------------------------------------------------------ specifications
\* Spec: the handlers that change the shape and the colours of the tree.
\* An empty tree in a session whose cache was flushed (Flush Cached
\* Scripts): the environment variable is unset, cacheItemCode does nothing
\* and the handlers change the tree only.
Init ==
    /\ tree = EmptyTree
    /\ file = NoFile
    /\ last = Did("init")
    /\ fs = NoCache
    /\ env = NoDir

Next ==
    \/ AddNullItem(MaxNodes)
    \/ AddGroupItem(MaxNodes)
    \/ SetGroupGradient
    \/ RemoveItem
    \/ RemoveTree
    \/ DropSelf
    \/ GroupItems(MaxNodes)

Spec == Init /\ [][Next]_vars

\* SpecConfig: items with their data, and the configuration file.  The
\* forest is built, then saved; the file is damaged or not, and loaded.
\* A forest of InitConfig is empty or w Null items in a row, the g-th a
\* Group, as w addNullItem/addGroupItem calls leave it.
WideItem(type) ==
    IF type = "Group"
    THEN [NewTreeItem EXCEPT !.name = <<"Group">>, !.type = "Group",
                             !.default_icon = "QPixmap"]
    ELSE [NewTreeItem EXCEPT !.name = <<"Null">>, !.type = "Null", !.code = "",
                             !.default_icon = "QPixmap"]

WideForest(w, g) ==
    [top  |-> [i \in 1..w |-> i],
     item |-> [i \in 1..w |-> WideItem(IF i = g THEN "Group" ELSE "Null")]]

InitConfig ==
    /\ tree \in {EmptyTree} \cup {WideForest(MaxWide, g) : g \in 1..MaxWide}
    /\ file = NoFile
    /\ last = Did("init")
    /\ fs = NoCache
    /\ env = NoDir

\* The forest is changed while it is small and not saved yet.
Building == ~file.exists /\ Size(tree) <= MaxConfigNodes

NextConfig ==
    \/ Building /\ AddNullItem(MaxConfigNodes)
    \/ Building /\ AddGroupItem(MaxConfigNodes)
    \/ Building /\ DropList(MaxConfigNodes, ListItems)
    \/ Building /\ CloneTree(MaxConfigNodes)
    \/ Building /\ SetGroupGradient
    \/ Building /\ UpdateItemCode
    \/ Building /\ DisableTree
    \/ Building /\ EnableTree
    \/ ~file.exists /\ SaveConfig
    \/ LoadConfig
    \/ last.op = "saveConfig" /\ DamageFile

SpecConfig == InitConfig /\ [][NextConfig]_vars

\* The tree under additions and clones.
NextClone ==
    \/ AddNullItem(MaxCloneNodes)
    \/ AddGroupItem(MaxCloneNodes)
    \/ CloneItem(MaxCloneNodes)
    \/ CloneTree(MaxCloneNodes)

SpecClone == Init /\ [][NextClone]_vars

\* The tree under additions, colours and changeItemParent.
NextMove ==
    \/ AddNullItem(MaxMoveNodes)
    \/ AddGroupItem(MaxMoveNodes)
    \/ SetGroupGradient
    \/ ChangeItemParent

SpecMove == Init /\ [][NextMove]_vars

\* The tree is built (additions, list drops, clones, check boxes), then
\* run.
NotRun == last.op # "runBuildTree"
NextRun ==
    \/ NotRun /\ AddNullItem(MaxRunNodes)
    \/ NotRun /\ AddGroupItem(MaxRunNodes)
    \/ NotRun /\ DropList(MaxRunNodes, RunListItems)
    \/ NotRun /\ CloneItem(MaxRunNodes)
    \/ NotRun /\ DisableTree
    \/ NotRun /\ EnableTree
    \/ NotRun /\ RunBuildTree

SpecRun == Init /\ [][NextRun]_vars

\* The tree with its cache: the state after PrometheusWindow() in a new
\* process, where initCacheFolders made the dated folder of the session.
InitCache ==
    /\ tree = EmptyTree
    /\ file = NoFile
    /\ last = Did("init")
    /\ fs = initCacheFolders(NoCache, NoDir, FALSE, {}).fs
    /\ env = initCacheFolders(NoCache, NoDir, FALSE, {}).env

NextCache ==
    \/ AddNullItem(MaxCacheNodes)
    \/ DropList(MaxCacheNodes, ListItems)
    \/ CloneItem(MaxCacheNodes)
    \/ CloneTree(MaxCacheNodes)
    \/ UpdateItemCode
    \/ RevertItemCode
    \/ RenameItem
    \/ FlushCachedScripts
    \/ NewWindow

SpecCache == InitCache /\ [][NextCache]_vars

\* Items with and without a cache file are renamed: Groups, items made
\* before and after a flush, and clones.
NextRename ==
    \/ AddNullItem(MaxCacheNodes)
    \/ AddGroupItem(MaxCacheNodes)
    \/ CloneItem(MaxCacheNodes)
    \/ RenameItem
    \/ FlushCachedScripts

SpecRename == InitCache /\ [][NextRename]_vars

\* A small tree is built, saved once and loaded, with the file picked or
\* the dialog cancelled.
NextLoad ==
    \/ AddNullItem(MaxLoadNodes)
    \/ AddGroupItem(MaxLoadNodes)
    \/ ~file.exists /\ SaveConfig
    \/ LoadConfig

SpecLoad == Init /\ [][NextLoad]_vars

\* The shape of the tree alone: every handler that moves, copies or
\* removes items, on a tree without colours.
NextForest ==
    \/ AddNullItem(MaxForestNodes)
    \/ AddGroupItem(MaxForestNodes)
    \/ ChangeItemParent
    \/ GroupItems(MaxForestNodes)
    \/ CloneItem(MaxForestNodes)
    \/ CloneTree(MaxForestNodes)
    \/ RemoveItem
    \/ RemoveTree
    \/ DropSelf

SpecForest == Init /\ [][NextForest]_vars

\* One process: windows are opened and the cache is flushed while items
\* are added and edited.
NextSession ==
    \/ AddNullItem(MaxCacheNodes)
    \/ UpdateItemCode
    \/ FlushCachedScripts
    \/ OpenWindow(FALSE)

SpecSession == InitCache /\ [][NextSession]_vars

\* The cache store by itself: its functions are called on the files of
\* the dated folders, which the user can also delete and add to (Open
\* Cached Scripts opens the folder of the session).
StorePrefixes == {<<"mod", "_">>, <<"x", "_", "_">>}
StoreTexts == {"print(1)", "print(2)"}
PlainName == <<"notes", ".py">>

\* The paths writeTempFile may have returned so far.
StorePaths ==
    {[dir |-> d, name |-> prefix \o <<"_", RandomChars[k], ".py">>] :
         d \in 1..fs.made, k \in 1..fs.made, prefix \in StorePrefixes}

StoreStep(op, R) ==
    /\ Cardinality(DOMAIN R.fs.files) <= MaxFiles
    /\ fs' = R.fs
    /\ last' = [Did(op) EXCEPT !.err = R.raised]
    /\ UNCHANGED <<tree, file, env>>

WriteTempFile ==
    \E prefix \in StorePrefixes, data \in StoreTexts :
        /\ fs.made < MaxMade
        /\ env # NoDir
        /\ StoreStep("writeTempFile", writeTempFile(fs, env, prefix, data))

UpdateTempFile ==
    \E filepath \in StorePaths \cup DOMAIN fs.files, data \in StoreTexts :
        StoreStep("updateTempFile", updateTempFile(fs, filepath, data))

RenameCacheFile ==
    \E filepath \in StorePaths \cup DOMAIN fs.files, new_name \in NewNames :
        StoreStep("renameCacheFile", renameCacheFile(fs, filepath, new_name))

\* The user deletes a file of a dated folder.
DeleteFile ==
    \E filepath \in DOMAIN fs.files :
        StoreStep("deleteFile",
                  [fs |-> [fs EXCEPT !.files =
                              [p \in DOMAIN @ \ {filepath} |-> @[p]]],
                   raised |-> FALSE])

\* The user saves a file of their own in the dated folder of the session.
SaveFile ==
    \E data \in StoreTexts :
        /\ env \in fs.dirs
        /\ StoreStep("saveFile",
                     [fs |-> [fs EXCEPT !.files =
                                 ([dir |-> env, name |-> PlainName] :> data) @@ @],
                      raised |-> FALSE])

NextStore ==
    \/ WriteTempFile
    \/ UpdateTempFile
    \/ RenameCacheFile
    \/ DeleteFile
    \/ SaveFile
    \/ FlushCachedScripts
    \/ NewWindow

SpecStore == InitCache /\ [][NextStore]_vars

\* ================================================================ claims
Sub(T, n) == Range(getSubtreeItems(T, n))
Colors == Palette \cup {NoColor}
IsGroup(T, n) == T.item[n].type = "Group"

\* The attributes of an item a caller reads: name, type, file path, code,
\* group colour, edited flag, enabled flag.
Attributes(T, n) ==
    [name |-> T.item[n].name, type |-> T.item[n].type,
     file_path |-> T.item[n].file_path, code |-> getCode(T, n),
     group_color |-> T.item[n].group_color,
     is_edited |-> T.item[n].edited, is_enabled |-> isEnabled(T, n)]

\* The colour of the nearest Group with a colour among p and its ancestors.
RECURSIVE NearestGroupColor(_, _)
NearestGroupColor(T, p) ==
    IF p = NoItem THEN NoColor
    ELSE IF IsGroup(T, p) /\ T.item[p].group_color # NoColor
    THEN T.item[p].group_color
    ELSE NearestGroupColor(T, T.item[p].parent)

\* C1: in every reachable state every item that is not a Group has the
\* colour of its nearest strict ancestor Group that has a colour, none when
\* there is no such ancestor.
C1_NonGroupHasNearestGroupColor ==
    \A n \in Items :
        ~IsGroup(tree, n) =>
            tree.item[n].group_color = NearestGroupColor(tree, tree.item[n].parent)

\* C2: setGroupGradient(color, G) changes the colour of no Group G2 below G
\* that has a colour already, nor of any item of the subtree of G2.
C2_GradientStopsAtColoredGroups ==
    \A G \in Items, color \in Colors :
        IsGroup(tree, G) =>
            LET T2 == setGroupGradient(tree, color, G)
            IN  \A G2 \in Sub(tree, G) \ {G} :
                    (IsGroup(tree, G2) /\ tree.item[G2].group_color # NoColor) =>
                        \A m \in Sub(tree, G2) :
                            T2.item[m].group_color = tree.item[m].group_color

View(T) ==
    [top |-> T.top,
     item |-> [n \in DOMAIN T.item |->
                 [parent |-> T.item[n].parent, kids |-> T.item[n].kids,
                  data |-> Attributes(T, n)]]]

\* C4: a loadConfig of the file that holds what saveConfig writes for the
\* current forest raises nothing and rebuilds the same forest: same shape
\* and sibling order, same attributes of every item.
C4_SaveThenLoadRebuildsForest ==
    [][(last'.op = "loadConfig" /\ last.op = "saveConfig")
          => (~last'.err /\ View(tree') = View(tree))]_vars

\* The value of a string of digits.
Num(k) == CHOOSE x \in 0..MaxId : Str(x) = k

\* The keys in ascending numeric order.
RECURSIVE NumSorted(_)
NumSorted(keys) ==
    IF keys = {} THEN <<>>
    ELSE LET least == CHOOSE k \in keys : \A o \in keys : Num(k) <= Num(o)
         IN  <<least>> \o NumSorted(keys \ {least})

\* The items of one level are those of the entries of dict in ascending
\* numeric order of the keys, and so below each of them.
RECURSIVE LevelInNumericOrder(_, _, _)
LevelInNumericOrder(T, nodes, dict) ==
    LET keys == NumSorted(DOMAIN dict)
    IN  /\ Len(nodes) = Len(keys)
        /\ \A i \in 1..Len(nodes) :
            /\ Attributes(T, nodes[i]) =
                   Attributes(ItemFromData(EmptyTree, 1, dict[keys[i]][1]), 1)
            /\ LevelInNumericOrder(T, T.item[nodes[i]].kids, dict[keys[i]][2])

\* C5: after a loadConfig that raised nothing, the items of every level
\* stand in ascending numeric order of the keys of their entries.
C5_LoadBuildsInNumericKeyOrder ==
    (last.op = "loadConfig" /\ ~last.err /\ file.exists)
        => LevelInNumericOrder(tree, tree.top, file.json)

\* C6: after a loadConfig that raised on a malformed entry, no item is left
\* in the tree.
C6_FailedLoadLeavesNoTree ==
    (last.op = "loadConfig" /\ last.err) => Size(tree) = 0

\* C7: removeItem(n) deletes n alone: all other items stay in the tree, the
\* children of n become children of the former parent of n (top-level
\* items if n was one), every other item keeps its parent and its
\* children in order, and the tree has one item less.
C7_RemoveItemDeletesOnlyItem ==
    \A n \in Items :
        LET T2 == Collect(removeItem(tree, n))
            p == tree.item[n].parent
        IN  /\ DOMAIN T2.item = Items \ {n}
            /\ InTree(T2) = Items \ {n}
            /\ Size(T2) = Size(tree) - 1
            /\ \A m \in Items \ {n} :
                /\ T2.item[m].parent =
                       IF tree.item[m].parent = n THEN p ELSE tree.item[m].parent
                /\ m # p => T2.item[m].kids = tree.item[m].kids
            /\ p # NoItem =>
                   Range(T2.item[p].kids) =
                       (Range(tree.item[p].kids) \ {n}) \cup Range(tree.item[n].kids)
            /\ p = NoItem =>
                   Range(T2.top) = (Range(tree.top) \ {n}) \cup Range(tree.item[n].kids)
            /\ p # NoItem => T2.top = tree.top

\* C7 happens: an item with a parent and children was just removed.
C7_Witness ==
    /\ last.op = "removeItem" /\ ~last.root /\ last.kids
    /\ \E m \in Items : Len(tree.item[m].kids) >= 2

\* C8: removeTree(n) deletes n and its descendants and nothing else: the
\* tree has subtreeSize(n) items less, and every other item keeps its
\* parent and its children in order.
C8_RemoveTreeDeletesSubtreeOnly ==
    \A n \in Items :
        LET T2 == Collect(removeTree(tree, n))
            p == tree.item[n].parent
        IN  /\ DOMAIN T2.item = Items \ Sub(tree, n)
            /\ InTree(T2) = Items \ Sub(tree, n)
            /\ Size(T2) = Size(tree) - Len(getSubtreeItems(tree, n))
            /\ T2.top = Without(tree.top, n)
            /\ \A m \in Items \ Sub(tree, n) :
                /\ T2.item[m].parent = tree.item[m].parent
                /\ T2.item[m].kids = Without(tree.item[m].kids, n)

\* C8 happens: an item with a parent and children was just removed with
\* its subtree, and items are left.
C8_Witness ==
    /\ last.op = "removeTree" /\ ~last.root /\ last.kids
    /\ Size(tree) >= 2

\* The objects a handler created, and the one of them that is not below
\* another: the clone of the item, or the root of the cloned subtree.
NewObjects(T, T2) == DOMAIN T2.item \ DOMAIN T.item
CloneRoot(T, T2) ==
    CHOOSE r \in NewObjects(T, T2) : T2.item[r].parent \notin NewObjects(T, T2)

\* The subtree of r in T2 copies the subtree of n in T: same shape and
\* order of children, same attributes item by item, no item in common.
IsCopyOf(T2, r, T, n) ==
    LET orig == getSubtreeItems(T, n)
        copy == getSubtreeItems(T2, r)
    IN  /\ Len(copy) = Len(orig)
        /\ Range(copy) \cap DOMAIN T.item = {}
        /\ \A i \in 1..Len(orig) :
            /\ Attributes(T2, copy[i]) = Attributes(T, orig[i])
            /\ Len(T2.item[copy[i]].kids) = Len(T.item[orig[i]].kids)
            /\ \A j \in 1..Len(T.item[orig[i]].kids) :
                   IndexOf(copy, T2.item[copy[i]].kids[j]) =
                       IndexOf(orig, T.item[orig[i]].kids[j])

\* C9: cloneTree(n), for n a top-level item or not, adds a copy of the
\* subtree of n (same shape, same order, same name, type, file path, code,
\* group colour, edited flag and enabled flag item by item), made of new
\* items only, and leaves the subtree of n as it was.
C9_CloneTreeCopiesSubtree ==
    \A n \in Items :
        LET T2 == Collect(cloneTree(tree, n))
        IN  /\ NewObjects(tree, T2) # {}
            /\ NewObjects(tree, T2) = Sub(T2, CloneRoot(tree, T2))
            /\ IsCopyOf(T2, CloneRoot(tree, T2), tree, n)
            /\ T2.item[n].parent = tree.item[n].parent
            /\ \A m \in Sub(tree, n) :
                /\ Attributes(T2, m) = Attributes(tree, m)
                /\ T2.item[m].kids = tree.item[m].kids
                /\ m # n => T2.item[m].parent = tree.item[m].parent

\* C10 as stated: the clone of cloneItem(n) and the root of the copy of
\* cloneTree(n) is a sibling of n that stands next to n, wherever n stands
\* among its siblings.
C10_CloneIsNextToItem ==
    \A n \in Items :
        LET T1 == Collect(cloneItem(tree, n))
            T2 == Collect(cloneTree(tree, n))
            c1 == CloneRoot(tree, T1)
            c2 == CloneRoot(tree, T2)
        IN  /\ T1.item[c1].parent = tree.item[n].parent
            /\ IndexOf(Siblings(T1, c1), c1) = IndexOf(Siblings(T1, n), n) + 1
            /\ T2.item[c2].parent = tree.item[n].parent
            /\ IndexOf(Siblings(T2, c2), c2) = IndexOf(Siblings(T2, n), n) + 1

\* C10 amended: the clone of cloneItem(n) and the root of the copy of
\* cloneTree(n) is a sibling of n (same parent, top-level if n is) and
\* stands last among the siblings, after all that were there, which keep
\* their order; it stands next to n only when n was the last sibling.
C10_CloneIsLastSibling ==
    \A n \in Items :
        LET T1 == Collect(cloneItem(tree, n))
            T2 == Collect(cloneTree(tree, n))
            c1 == CloneRoot(tree, T1)
            c2 == CloneRoot(tree, T2)
        IN  /\ T1.item[c1].parent = tree.item[n].parent
            /\ Siblings(T1, c1) = Siblings(tree, n) \o <<c1>>
            /\ T2.item[c2].parent = tree.item[n].parent
            /\ Siblings(T2, c2) = Siblings(tree, n) \o <<c2>>

\* C10 happens: an item with a parent and a sibling after it was just
\* cloned, so that its parent has three children at least.
C10_Witness ==
    /\ last.op = "cloneItem"
    /\ ~last.root /\ ~last.lastsib
    /\ \E p \in Items : Len(tree.item[p].kids) >= 3

\* What an item holds apart from its place in the tree.
Data(T, m) == [T.item[m] EXCEPT !.parent = NoItem, !.kids = <<>>]

\* C11: changeItemParent(n, new_parent) moves n with its subtree under
\* new_parent, as its last child, and changes nothing else: the subtree of
\* n is as it was, every item holds the data it held (its group colour in
\* particular), every other item keeps its parent and its other children
\* in order, and the tree has as many items as before.
C11_ChangeItemParentMovesSubtreeOnly ==
    \A n \in Items :
        \A new_parent \in ParentChoices \ Sub(tree, n) :
            LET T2 == changeItemParent(tree, n, new_parent)
            IN  /\ DOMAIN T2.item = Items
                /\ InTree(T2) = Items
                /\ Size(T2) = Size(tree)
                /\ T2.item[n].parent = new_parent
                /\ getSubtreeItems(T2, n) = getSubtreeItems(tree, n)
                /\ T2.top = IF new_parent = NoItem
                             THEN Without(tree.top, n) \o <<n>>
                             ELSE Without(tree.top, n)
                /\ \A m \in Items :
                    /\ Data(T2, m) = Data(tree, m)
                    /\ m # n => T2.item[m].parent = tree.item[m].parent
                    /\ T2.item[m].kids =
                           IF m = new_parent
                           THEN Without(tree.item[m].kids, n) \o <<n>>
                           ELSE Without(tree.item[m].kids, n)

\* C11 happens: an item with children was just moved, and an item that is
\* not a Group, has children and has another colour than its parent
\* Group stands last under that Group.
C11_Witness ==
    /\ last.op = "changeItemParent" /\ last.kids
    /\ \E g \in Items, n \in Items :
        /\ IsGroup(tree, g) /\ ~IsGroup(tree, n)
        /\ tree.item[g].kids # <<>>
        /\ tree.item[g].kids[Len(tree.item[g].kids)] = n
        /\ tree.item[n].kids # <<>>
        /\ tree.item[g].group_color # NoColor
        /\ tree.item[n].group_color # tree.item[g].group_color

\* The items above m, from its parent up.
RECURSIVE AncestorsOf(_, _)
AncestorsOf(T, m) ==
    IF T.item[m].parent = NoItem THEN {}
    ELSE {T.item[m].parent} \cup AncestorsOf(T, T.item[m].parent)

\* The items of s stand in all in the order of s.
InOrder(all, s) ==
    \A i \in 1..Len(s), j \in 1..Len(s) :
        i < j => IndexOf(all, s[i]) < IndexOf(all, s[j])

\* all lists every item of T once, in pre-order depth first: the top-level
\* items in their order, every item before the items below it, which
\* follow it without a gap, and its children in their order.
IsPreOrder(T, all) ==
    /\ Len(all) = Cardinality(DOMAIN T.item)
    /\ Range(all) = DOMAIN T.item
    /\ InOrder(all, T.top)
    /\ \A m \in DOMAIN T.item :
        LET below == {d \in DOMAIN T.item : m \in AncestorsOf(T, d)}
            at == IndexOf(all, m)
        IN  /\ InOrder(all, T.item[m].kids)
            /\ \A d \in DOMAIN T.item :
                   d \in below <=>
                       IndexOf(all, d) \in (at + 1)..(at + Cardinality(below))

\* C12: getAllItems returns every item of the forest once, in pre-order
\* depth first, whatever handler shaped the tree: so for the tree as it
\* is, and so again for the tree as any changeItemParent leaves it.
C12_GetAllItemsIsPreOrder ==
    /\ IsPreOrder(tree, getAllItems(tree))
    /\ \A n \in Items :
        \A new_parent \in ParentChoices \ Sub(tree, n) :
            LET T2 == changeItemParent(tree, n, new_parent)
            IN  IsPreOrder(T2, getAllItems(T2))

\* C12 happens: the tree holds two top-level items at least, the first of
\* them with a child, after a handler that moved an item.
C12_Witness ==
    /\ last.op = "changeItemParent"
    /\ Len(tree.top) >= 2
    /\ tree.item[tree.top[1]].kids # <<>>

\* C13: when a run raised, the item whose code raised is the last one exec
\* was called on and shows the red icon, every item executed before it
\* shows the green icon, and no item after it in tree order was executed.
C13_RunIsFailFast ==
    (last.op = "runBuildTree" /\ last.err) =>
        LET all == getAllItems(tree)
            k == Len(last.ran)
        IN  /\ k >= 1
            /\ last.ran[k] = last.item
            /\ \A i \in 1..(k - 1) : tree.item[last.ran[i]].icon = "green"
            /\ tree.item[last.item].icon = "red"
            /\ \A m \in Items :
                   IndexOf(all, m) > IndexOf(all, last.item)
                       => m \notin Range(last.ran)

\* How many times x stands in s.
Count(s, x) == Cardinality({i \in 1..Len(s) : s[i] = x})

\* C14: after a run that raised nothing, an item was executed once if it
\* is not a Group and is checked itself, whatever the check boxes of the
\* items above it, and not at all otherwise; the executions follow the
\* pre-order of the tree.
C14_RunExecutesEnabledNonGroups ==
    (last.op = "runBuildTree" /\ ~last.err) =>
        /\ \A n \in Items :
               Count(last.ran, n) =
                   IF ~IsGroup(tree, n) /\ isEnabled(tree, n) THEN 1 ELSE 0
        /\ InOrder(getAllItems(tree), last.ran)

\* C14 happens: a run raised nothing and executed a checked item under an
\* unchecked Group, while an unchecked item that is not a Group stands in
\* the tree.
C14_Witness ==
    /\ last.op = "runBuildTree" /\ ~last.err
    /\ \E g \in Items, c \in Items, d \in Items :
        /\ IsGroup(tree, g) /\ ~isEnabled(tree, g)
        /\ tree.item[c].parent = g /\ isEnabled(tree, c)
        /\ c \in Range(last.ran)
        /\ ~IsGroup(tree, d) /\ ~isEnabled(tree, d)

\* The cache file of item n, and the items that have one.
CacheFile(n) == tree.item[n].cache_file
Cached == {n \in Items : CacheFile(n) # NoPath}

\* The code editor or Revert Code changes the code of item n: the world
\* after the handler.
CodeChanges(n) ==
    {updateItemCodeCached(World, n, text) :
         text \in {t \in EditorTexts : t # tree.item[n].code}}
    \cup {revertItemCode(World, n) : x \in
              {fp \in {tree.item[n].file_path} :
                   tree.item[n].code # (IF fp # None THEN SourceCode(fp) ELSE "")}}

\* C15: once an item has a cache file, a change of its code leaves the
\* item with that same cache file, the file holds the new code, and no
\* other file was made.
C15_CodeChangeRewritesCacheFile ==
    \A n \in Cached : \A W \in CodeChanges(n) :
        /\ W.T.item[n].cache_file = CacheFile(n)
        /\ CacheFile(n) \in DOMAIN W.fs.files
        /\ W.fs.files[CacheFile(n)] = getCode(W.T, n)
        /\ DOMAIN W.fs.files \subseteq DOMAIN fs.files \cup {CacheFile(n)}

\* C16: in every state, the cache file of every item is on disk and holds
\* the code of the item.
C16_CacheFileMirrorsCode ==
    \A n \in Cached :
        /\ CacheFile(n) \in DOMAIN fs.files
        /\ fs.files[CacheFile(n)] = getCode(tree, n)

\* C17: no two items have the same cache file.
C17_CacheFilesAreNotShared ==
    \A a \in Cached, b \in Cached : a # b => CacheFile(a) # CacheFile(b)

\* C17 happens: an item and its converted copy (cloneItem, cloneTree) both
\* have a cache file, and so does an item dropped from the list.
C17_Witness ==
    \E a \in Cached, b \in Cached :
        /\ a # b
        /\ tree.item[a].default_icon = "QIcon"
        /\ tree.item[b].default_icon = "QPixmap"
        /\ tree.item[b].file_path # None

\* C18: updateTempFile on a path where no file is raises and makes no
\* file.
C18_UpdateFailsWithoutFile ==
    \A filepath \in StorePaths, data \in StoreTexts :
        filepath \notin DOMAIN fs.files =>
            /\ updateTempFile(fs, filepath, data).raised
            /\ updateTempFile(fs, filepath, data).fs = fs

\* Whether the file name has the separator "__", and what follows the
\* last one.
HasSeparator(name) ==
    \E i \in 1..(Len(name) - 1) : name[i] = "_" /\ name[i + 1] = "_"
AfterLastSeparator(name) ==
    LET i == CHOOSE j \in 1..(Len(name) - 1) :
                 /\ name[j] = "_" /\ name[j + 1] = "_"
                 /\ \A k \in (j + 1)..(Len(name) - 1) :
                        ~(name[k] = "_" /\ name[k + 1] = "_")
    IN  SubSeq(name, i + 2, Len(name))

\* C19: renameCacheFile on a file whose name has no "__" raises and
\* renames nothing; on a name with "__" the new name is the new name,
\* "__" and what followed the last "__" of the old name.
C19_RenameNeedsSeparator ==
    \A filepath \in DOMAIN fs.files, new_name \in NewNames :
        LET R == renameCacheFile(fs, filepath, new_name)
        IN  IF HasSeparator(filepath.name)
            THEN /\ ~R.raised
                 /\ R.result.dir = filepath.dir
                 /\ R.result.name =
                        new_name \o <<"_", "_">> \o AfterLastSeparator(filepath.name)
            ELSE R.raised /\ R.fs = fs

\* C20: a call of initDateFolder that does not raise returns the dated
\* folder of the session, which is the folder the environment variable
\* names, and the folder is on disk after the call.
C20_InitDateFolderReturnsFolder ==
    LET R == initDateFolder(fs, env)
    IN  ~R.raised =>
            /\ R.result # NoDir
            /\ R.result = R.env
            /\ R.result \in R.fs.dirs

\* The dated folder the first window of the process made (InitCache).
FirstDir == initCacheFolders(NoCache, NoDir, FALSE, {}).env

C22_FlushOutdatedDeletesOldSubfoldersOnly ==
    \A old_root \in BOOLEAN, old \in SUBSET fs.dirs :
        fs.root =>
            /\ flushOutdatedCache(fs, old_root, old).root
            /\ flushOutdatedCache(fs, old_root, old).dirs = fs.dirs \ old

\* C23: in every state the name of an item that is no Null ends with the
\* " (edited)" marker exactly when the item is edited, and holds the marker
\* once at most.
C23_NameMarkedIffEdited ==
    \A n \in Items :
        LET name == tree.item[n].name
        IN  tree.item[n].type # "Null" =>
                /\ tree.item[n].edited <=>
                       (name # <<>> /\ name[Len(name)] = EditedMark)
                /\ Count(name, EditedMark) <= 1

Drops ==
    {d \in [held : Items, where : {"on", "above", "below", "viewport"},
            target : ParentChoices] :
         /\ (d.where = "viewport") = (d.target = NoItem)
         /\ d.target \notin Range(getSubtreeItems(tree, d.held))}

\* C25: a drop inside the widget changes the colour of no Group; with a
\* Group held no colour changes, and with another item held only items of
\* its subtree that are no Groups change colour.
C25_DropKeepsGroupColors ==
    \A d \in Drops :
        LET T2 == dropEventSelf(tree, d.held, d.where, d.target)
            changed == {m \in Items :
                           T2.item[m].group_color # tree.item[m].group_color}
        IN  /\ \A m \in changed : ~IsGroup(tree, m)
            /\ IsGroup(tree, d.held) => changed = {}
            /\ changed \subseteq Range(getSubtreeItems(tree, d.held))

\* What Ctrl+G can find selected: no item, one item, or two, in either
\* order.
Selections ==
    {<<>>} \cup {<<a>> : a \in Items}
           \cup {<<p[1], p[2]>> : p \in {q \in Items \X Items : q[1] # q[2]}}

\* C26: after groupItems there is one new item, a Group; the selected
\* items are its children and the others have the parent they had; the
\* Group is under the parent the selected items share,/ a top-level item
\* when they share none; every item stands once in the tree.
C26_GroupItemsGroupsSelection ==
    \A sel \in Selections :
        LET T2 == groupItems(tree, sel)
            group == NewId(tree)
            parents == {tree.item[n].parent : n \in Range(sel)}
        IN  /\ DOMAIN T2.item = Items \cup {group}
            /\ IsGroup(T2, group)
            /\ Range(T2.item[group].kids) = Range(sel)
            /\ \A n \in Range(sel) : T2.item[n].parent = group
            /\ \A m \in Items \ Range(sel) : T2.item[m].parent = tree.item[m].parent
            /\ T2.item[group].parent =
                   IF Cardinality(parents) = 1 THEN CHOOSE q \in parents : TRUE
                   ELSE NoItem
            /\ Len(getAllItems(T2)) = Size(T2)
            /\ Range(getAllItems(T2)) = DOMAIN T2.item

\* C26 happens: groupItems has run, and the tree holds two items under one
\* parent (a selection with a common parent that is no root) next to the
\* parent itself (a selection of an item and its child).
C26_Witness ==
    /\ last.op = "groupItems"
    /\ \E a \in Items, b \in Items, c \in Items :
        /\ b # c
        /\ tree.item[b].parent = a
        /\ tree.item[c].parent = a

\* In how many places item n stands: in the top level and in the lists of
\* children.
Places(T, n) ==
    Cardinality({i \in 1..Len(T.top) : T.top[i] = n})
    + Cardinality(UNION {{<<q, i>> : i \in {j \in DOMAIN T.item[q].kids :
                                                 T.item[q].kids[j] = n}} :
                             q \in DOMAIN T.item})

\* The item k steps above n, NoItem above a top-level item.
RECURSIVE Up(_, _, _)
Up(T, n, k) ==
    IF k = 0 \/ n = NoItem THEN n ELSE Up(T, T.item[n].parent, k - 1)

\* T is a forest: an item stands in one place at most, under the item
\* that parent() names, no item is above itself, and getAllItems lists
\* the items that stand in the tree once each.
WellFormed(T) ==
    /\ \A n \in DOMAIN T.item :
        /\ Places(T, n) <= 1
        /\ n \in Range(T.top) => T.item[n].parent = NoItem
        /\ \A q \in DOMAIN T.item :
               n \in Range(T.item[q].kids) => T.item[n].parent = q
        /\ Up(T, n, Size(T)) = NoItem
    /\ LET all == getAllItems(T)
           in_tree == {n \in DOMAIN T.item :
                           \E k \in 0..Size(T) : Up(T, n, k) \in Range(T.top)}
       IN  /\ Range(all) = in_tree
           /\ Len(all) = Cardinality(in_tree)

\* The tree as each handler that changes its shape can leave it.
Shaped ==
    {addNullItem(tree, q) : q \in ParentChoices}
    \cup {addGroupItem(tree, q) : q \in ParentChoices}
    \cup {removeItem(tree, n) : n \in Items}
    \cup {removeTree(tree, n) : n \in Items}
    \cup {cloneItem(tree, n) : n \in Items}
    \cup {cloneTree(tree, n) : n \in Items}
    \cup {groupItems(tree, sel) : sel \in Selections}
    \cup {dropEventSelf(tree, d.held, d.where, d.target) : d \in Drops}
    \cup {changeItemParent(tree, m[1], m[2]) :
              m \in {x \in Items \X ParentChoices :
                         x[2] \notin Range(getSubtreeItems(tree, x[1]))}}

\* C27: the tree is a forest, and so it is as every handler leaves it.
C27_TreeIsForest ==
    /\ WellFormed(tree)
    /\ \A T2 \in Shaped : WellFormed(T2)

\* C27 happens: a handler that moves or copies items has run, and the
\* tree has an item with a child and a grandchild, which changeItemParent,
\* cloneTree and groupItems then move or copy.
C27_Witness ==
    /\ last.op \in {"changeItemParent", "cloneTree", "groupItems"}
    /\ \E a \in Items, b \in Items, c \in Items :
        tree.item[b].parent = a /\ tree.item[c].parent = b

\* C28: loadConfig clears the tree before it reads: with the file dialog
\* cancelled or a file that does not exist, the tree is empty afterwards,
\* and nothing is raised.
C28_LoadWithoutFileClearsTree ==
    /\ loadConfig(tree, NoFile) = [T |-> EmptyTree, raised |-> FALSE]
    /\ last.op = "loadConfigCancelled" => tree = EmptyTree /\ ~last.err

\* C28 happens: a tree with items was saved, and a loadConfig with the
\* dialog cancelled has run after that.
C28_Witness ==
    /\ last.op = "loadConfigCancelled"
    /\ file.exists
    /\ DOMAIN file.json # {}

\* The name renameItem gives item n for the text new_name of the dialog.
Renamed(n, new_name) ==
    IF tree.item[n].edited /\ tree.item[n].type # "Null"
    THEN Append(new_name, EditedMark) ELSE new_name

\* renameItem of item n raised with the new name set and no cache file.
RaisedAfterName(n, new_name) ==
    LET R == renameItem(World, n, new_name)
    IN  /\ R.raised
        /\ R.W.T.item[n].name = Renamed(n, new_name)
        /\ R.W.T.item[n].cache_file = NoPath

\* C29 as stated: renameItem of an item without a cache file raises after
\* it has set the new name, and the item has no cache file afterwards.
C29_RenameWithoutCacheFileRaises ==
    \A n \in Items, new_name \in NewNames :
        CacheFile(n) = NoPath => RaisedAfterName(n, new_name)

\* The dated folder of the session is registered and on disk.
SessionFolder == env # NoDir /\ env \in fs.dirs

\* C29: renameItem of an item without a cache file raises after it has
\* set the new name, and leaves the item without a cache file, when the
\* item is a Group, the session has no dated folder, or the name given is
\* the name the item has; an item that is no Group gets its cache file
\* from the change of its name while the session has its folder, and its
\* renameItem raises nothing.
C29_RenameRaisesWhereNothingIsCached ==
    \A n \in Items, new_name \in NewNames :
        CacheFile(n) = NoPath =>
            IF \/ IsGroup(tree, n)
               \/ ~SessionFolder
               \/ Renamed(n, new_name) = tree.item[n].name
            THEN RaisedAfterName(n, new_name)
            ELSE LET R == renameItem(World, n, new_name)
                 IN  /\ ~R.raised
                     /\ R.W.T.item[n].name = Renamed(n, new_name)
                     /\ R.W.T.item[n].cache_file \in DOMAIN R.W.fs.files

\* C29 happens: renameItem has raised on an item that has the new name and
\* no cache file, in a tree with a Group and an item that is no Group and
\* has no cache file, made after a flush.
C29_Witness ==
    /\ last.op = "renameItem" /\ last.err
    /\ tree.item[last.item].name = <<"new">>
    /\ CacheFile(last.item) = NoPath
    /\ env = NoDir
    /\ \E g \in Items, n \in Items :
        /\ IsGroup(tree, g)
        /\ ~IsGroup(tree, n) /\ CacheFile(n) = NoPath
        /\ tree.item[n].default_icon = "QPixmap"

====
